---- MODULE Spec2Model ----
(***************************************************************************)
(* fileconcat: the file selection pipeline (src/src/fileconcat).           *)
(*   matchers.py  make_path_matchers, ContentMatcher.check                 *)
(*   scan.py      iter_files, scan_files                                   *)
(*   config.py    DEFAULT_EXCLUDED_DIR_NAMES, DEFAULT_BINARY_EXTS          *)
(*                                                                         *)
(* A Python str is a sequence of one-character strings; a path is a        *)
(* sequence of components, joined with "/" where the code needs its text.  *)
(* Three specifications share the variables:                               *)
(*   Spec       scan_files over a directory tree                           *)
(*   SpecCheck  one call of ContentMatcher.check on one file               *)
(*   SpecPath   one application of the two path matchers                   *)
(***************************************************************************)
EXTENDS Integers, Sequences, FiniteSets, TLC

VARIABLES
  cfg,              \* AppConfig (never assigned after construction)
  fs,               \* the directory tree and the files' lines
  pc,               \* position of the running code
  stack,            \* os.walk: directories still to be listed
  pending,          \* files of the listed directory not yet yielded
  listed,           \* os.scandir(root) has been entered (non-recursive mode)
  file_path_str,    \* the candidate of the current loop iteration
  scanned,          \* stats.scanned
  yielded,          \* every path iter_files has yielded, in order
  matched,          \* stats.matched
  filtered,         \* the matched-file list
  warnings,         \* tui.print_warning calls, in order
  log,              \* stages the current candidate went through
  path_inc,         \* last value of include_path(rel_path_str, name)
  path_exc,         \* last value of exclude_path(rel_path_str, name)
  batch,            \* ContentMatcher.check: the batch buffer
  content_matches,  \* nonlocal flag of check
  content_excluded, \* nonlocal flag of check
  nread,            \* lines of the open file consumed so far
  io,               \* I/O operations done on the open file (open, reads)
  result,           \* (include_ok, excluded, had_warning) of the last check
  tested,           \* batch texts given to process_batch during this check
  opens,            \* every path given to open(), in order
  raised,           \* every exception caught by check: path, I/O operation, flag
  first             \* what an earlier call of scan_files returned, if any

scanVars == <<stack, pending, listed, scanned, yielded, matched, filtered, warnings, log>>
pathVars == <<path_inc, path_exc>>
chkVars == <<batch, content_matches, content_excluded, nread, io, result, tested,
            opens, raised>>
vars == <<cfg, fs, pc, file_path_str, scanVars, pathVars, chkVars, first>>

----------------------------------------------------------------------------
(* Bounds of the model *)

MaxLines == 3
MaxBatch == 3
MaxPatLen == 3
MaxNameLen == 2
MaxDepth == 2

----------------------------------------------------------------------------
(* Strings *)

NL == "\n"

RECURSIVE Join(_)
Join(seqs) == IF seqs = <<>> THEN <<>> ELSE Head(seqs) \o Join(Tail(seqs))

RECURSIVE JoinSep(_, _)
JoinSep(comps, sep) ==
  IF comps = <<>> THEN <<>>
  ELSE IF Len(comps) = 1 THEN Head(comps)
  ELSE Head(comps) \o <<sep>> \o JoinSep(Tail(comps), sep)

\* Python's "p in s" for str
Contains(p, s) ==
  \E i \in 0..(Len(s) - Len(p)) : SubSeq(s, i + 1, i + Len(p)) = p

ToLower ==
  ("A" :> "a") @@ ("B" :> "b") @@ ("C" :> "c") @@ ("D" :> "d") @@ ("E" :> "e") @@ ("F" :> "f")
  @@ ("G" :> "g") @@ ("H" :> "h") @@ ("I" :> "i") @@ ("J" :> "j") @@ ("K" :> "k") @@ ("L" :> "l")
  @@ ("M" :> "m") @@ ("N" :> "n") @@ ("O" :> "o") @@ ("P" :> "p") @@ ("Q" :> "q") @@ ("R" :> "r")
  @@ ("S" :> "s") @@ ("T" :> "t") @@ ("U" :> "u") @@ ("V" :> "v") @@ ("W" :> "w") @@ ("X" :> "x")
  @@ ("Y" :> "y") @@ ("Z" :> "z")

lower(s) == [i \in 1..Len(s) |-> IF s[i] \in DOMAIN ToLower THEN ToLower[s[i]] ELSE s[i]]

\* A regular expression is a str over literals, "." (any character but a
\* newline) and a postfix "*" (zero or more of the preceding item).
RegexValid(p) ==
  /\ p # <<>> => p[1] # "*"
  /\ \A i \in 1..(Len(p) - 1) : ~(p[i] = "*" /\ p[i + 1] = "*")

ItemMatches(item, c) == IF item = "." THEN c # NL ELSE item = c

RECURSIVE MatchAt(_, _, _, _)
MatchAt(p, i, s, j) ==
  IF i > Len(p) THEN TRUE
  ELSE IF i < Len(p) /\ p[i + 1] = "*"
    THEN \/ MatchAt(p, i + 2, s, j)
         \/ /\ j <= Len(s)
            /\ ItemMatches(p[i], s[j])
            /\ MatchAt(p, i, s, j + 1)
    ELSE /\ j <= Len(s)
         /\ ItemMatches(p[i], s[j])
         /\ MatchAt(p, i + 1, s, j + 1)

\* re.compile(p).search(s)
search(p, s) == \E j \in 1..(Len(s) + 1) : MatchAt(p, 1, s, j)

----------------------------------------------------------------------------
(* config.py *)

DEFAULT_EXCLUDED_DIR_NAMES ==
  { <<".", "g", "i", "t">>,
    <<".", "h", "g">>,
    <<".", "s", "v", "n">>,
    <<".", "i", "d", "e", "a">>,
    <<".", "v", "s", "c", "o", "d", "e">>,
    <<"_", "_", "p", "y", "c", "a", "c", "h", "e", "_", "_">>,
    <<"n", "o", "d", "e", "_", "m", "o", "d", "u", "l", "e", "s">>,
    <<"d", "i", "s", "t">>,
    <<"b", "u", "i", "l", "d">>,
    <<"o", "u", "t">>,
    <<"t", "a", "r", "g", "e", "t">>,
    <<".", "g", "r", "a", "d", "l", "e">>,
    <<".", "m", "v", "n">>,
    <<".", "v", "e", "n", "v">>,
    <<"v", "e", "n", "v">> }

DEFAULT_BINARY_EXTS ==
  { <<".", "j", "p", "g">>,
    <<".", "j", "p", "e", "g">>,
    <<".", "p", "n", "g">>,
    <<".", "g", "i", "f">>,
    <<".", "b", "m", "p">>,
    <<".", "i", "c", "o">>,
    <<".", "p", "d", "f">>,
    <<".", "z", "i", "p">>,
    <<".", "t", "a", "r">>,
    <<".", "g", "z">>,
    <<".", "b", "z", "2">>,
    <<".", "7", "z">>,
    <<".", "j", "a", "r">>,
    <<".", "e", "x", "e">>,
    <<".", "d", "l", "l">>,
    <<".", "s", "o">>,
    <<".", "d", "y", "l", "i", "b">>,
    <<".", "c", "l", "a", "s", "s">>,
    <<".", "b", "i", "n">>,
    <<".", "w", "o", "f", "f">>,
    <<".", "w", "o", "f", "f", "2">>,
    <<".", "t", "t", "f">>,
    <<".", "o", "t", "f">> }

DEFAULT_BATCH_SIZE == 100

MatchModes == {"exact", "substring", "regex"}

\* An optional str ("str | None"): None, or a str that may be empty
NoneP == [set |-> FALSE, text |-> <<>>]
Some(s) == [set |-> TRUE, text |-> s]

\* Python truthiness of an optional str: neither None nor ""
Truthy(p) == p.set /\ p.text # <<>>

----------------------------------------------------------------------------
(* os.path *)

basename(path) == path[Len(path)]

\* os.path.relpath(path, start).replace(os.sep, "/")
relpath(path, start) == JoinSep(SubSeq(path, Len(start) + 1, Len(path)), "/")

\* os.path.splitext(name)[1]: from the last dot on, unless only dots precede it
splitext(name) ==
  LET dots == {i \in 1..Len(name) : name[i] = "."}
      dotIndex == CHOOSE i \in dots : \A k \in dots : k <= i
  IN  IF dots # {} /\ (\E k \in 1..(dotIndex - 1) : name[k] # ".")
      THEN SubSeq(name, dotIndex, Len(name))
      ELSE <<>>

----------------------------------------------------------------------------
(* matchers.py: make_path_matchers *)

include_substring_for_exact(rel_path, name) ==
  IF ~Truthy(cfg.pattern) THEN TRUE
  ELSE IF cfg.match_mode = "regex" THEN search(cfg.pattern.text, rel_path)
  ELSE Contains(cfg.pattern.text, rel_path) \/ Contains(cfg.pattern.text, name)

include(rel_path, name) ==
  IF ~Truthy(cfg.pattern) THEN TRUE
  ELSE IF cfg.match_mode = "regex" THEN search(cfg.pattern.text, rel_path)
  ELSE IF cfg.match_mode = "substring"
    THEN Contains(cfg.pattern.text, rel_path) \/ Contains(cfg.pattern.text, name)
  ELSE rel_path = cfg.pattern.text \/ name = cfg.pattern.text

exclude(rel_path, name) ==
  IF ~Truthy(cfg.exclude_pattern) THEN FALSE
  ELSE IF cfg.match_mode = "regex" THEN search(cfg.exclude_pattern.text, rel_path)
  ELSE IF cfg.match_mode = "substring"
    THEN Contains(cfg.exclude_pattern.text, rel_path) \/ Contains(cfg.exclude_pattern.text, name)
  ELSE rel_path = cfg.exclude_pattern.text \/ name = cfg.exclude_pattern.text

\* re.compile raises re.error in make_path_matchers or ContentMatcher.__init__
compile_fails ==
  /\ cfg.match_mode = "regex"
  /\ \E p \in {cfg.pattern, cfg.exclude_pattern,
               cfg.content_pattern, cfg.content_exclude_pattern} :
        Truthy(p) /\ ~RegexValid(p.text)

----------------------------------------------------------------------------
(* matchers.py: ContentMatcher *)

\* self.batch_size = max(1, batch_size)
batch_size == IF cfg.batch_size > 1 THEN cfg.batch_size ELSE 1

\* self._enabled
enabled == Truthy(cfg.content_pattern) \/ Truthy(cfg.content_exclude_pattern)

is_binary_like_case_sensitive(name) == splitext(name) \in DEFAULT_BINARY_EXTS

is_binary_like(name) == lower(splitext(name)) \in DEFAULT_BINARY_EXTS

\* the mode-dependent test of one pattern on one batch text
content_hit(p, batch_text) ==
  IF cfg.match_mode = "regex" THEN search(p.text, batch_text)
  ELSE Contains(p.text, batch_text)

early_stop_on_include(cm, ce) == ce \/ (Truthy(cfg.content_pattern) /\ cm)

\* "early stop logic" of process_batch
early_stop(cm, ce) ==
  \/ ce
  \/ Truthy(cfg.content_pattern) /\ cm /\ ~Truthy(cfg.content_exclude_pattern)

\* process_batch: the new flags and its return value
process_batch(batch_text, cm, ce) ==
  IF batch_text = <<>>
  THEN [content_matches |-> cm, content_excluded |-> ce, stop |-> FALSE]
  ELSE LET cm2 == IF Truthy(cfg.content_pattern) /\ ~cm
                  THEN content_hit(cfg.content_pattern, batch_text) ELSE cm
           ce2 == IF Truthy(cfg.content_exclude_pattern) /\ ~ce
                  THEN content_hit(cfg.content_exclude_pattern, batch_text) ELSE ce
       IN  [content_matches |-> cm2, content_excluded |-> ce2,
            stop |-> early_stop(cm2, ce2)]

tail_pending_never(b, cm, ce) == FALSE

tail_pending_whenever_nonempty(b, cm, ce) == b # <<>>

\* the condition under which the leftover batch is processed after the loop
tail_pending(b, cm, ce) ==
  /\ b # <<>>
  /\ ~(ce \/ (Truthy(cfg.content_pattern) /\ cm /\ ~Truthy(cfg.content_exclude_pattern)))

Res(a, b, c) == [include_ok |-> a, excluded |-> b, had_warning |-> c]

final_check_without_exclude(cm, ce, hw) ==
  IF Truthy(cfg.content_pattern) /\ ~cm THEN Res(FALSE, FALSE, hw)
  ELSE Res(TRUE, FALSE, hw)

\* "final check": the returned triple when no exception was raised
final_check(cm, ce, hw) ==
  IF Truthy(cfg.content_pattern) /\ ~cm THEN Res(FALSE, FALSE, hw)
  ELSE IF Truthy(cfg.content_exclude_pattern) /\ ce THEN Res(FALSE, TRUE, hw)
  ELSE Res(TRUE, FALSE, hw)

except_result_accepting == Res(TRUE, FALSE, TRUE)

\* the triple returned by the except branch
except_result == Res(FALSE, FALSE, TRUE)

\* the file behind a path of the tree
file_of(path) == fs.files[SubSeq(path, Len(cfg.input_dir) + 1, Len(path))]

\* the k-th I/O operation on the current file raises
Fails(k) == file_of(file_path_str).failAt = k

Return(r) == result' = r /\ pc' = "after_check"

CheckEntry_keeping_flags ==
  /\ pc = "check"
  /\ LET name == basename(file_path_str) IN
       IF ~enabled THEN Return(Res(TRUE, FALSE, FALSE))
       ELSE IF Truthy(cfg.content_pattern) /\ is_binary_like(name)
         THEN Return(Res(FALSE, FALSE, FALSE))
       ELSE /\ pc' = IF is_binary_like(name) THEN "final" ELSE "open"
            /\ result' = result
  /\ content_matches' = content_matches
  /\ content_excluded' = content_excluded
  /\ batch' = <<>>
  /\ nread' = 0
  /\ io' = 0
  /\ tested' = <<>>
  /\ UNCHANGED <<cfg, fs, first, file_path_str, scanVars, pathVars, opens, raised>>

\* check, up to the decision whether to open the file
CheckEntry ==
  /\ pc = "check"
  /\ LET name == basename(file_path_str) IN
       IF ~enabled THEN Return(Res(TRUE, FALSE, FALSE))
       ELSE IF Truthy(cfg.content_pattern) /\ is_binary_like(name)
         THEN Return(Res(FALSE, FALSE, FALSE))
       ELSE /\ pc' = IF is_binary_like(name) THEN "final" ELSE "open"
            /\ result' = result
  /\ content_matches' = FALSE
  /\ content_excluded' = FALSE
  /\ batch' = <<>>
  /\ nread' = 0
  /\ io' = 0
  /\ tested' = <<>>
  /\ UNCHANGED <<cfg, fs, first, file_path_str, scanVars, pathVars, opens, raised>>

\* open(file_path_str, "r", ...) succeeds
OpenFile ==
  /\ pc = "open"
  /\ ~Fails(io + 1)
  /\ io' = io + 1
  /\ opens' = Append(opens, file_path_str)
  /\ batch' = <<>>
  /\ pc' = "read"
  /\ raised' = raised
  /\ UNCHANGED <<cfg, fs, first, file_path_str, scanVars, pathVars,
                 content_matches, content_excluded, nread, result, tested>>

\* one iteration of "for line in f"
ReadLine ==
  /\ pc = "read"
  /\ nread < Len(file_of(file_path_str).lines)
  /\ ~Fails(io + 1)
  /\ io' = io + 1
  /\ nread' = nread + 1
  /\ LET b2 == Append(batch, file_of(file_path_str).lines[nread + 1]) IN
       IF Len(b2) >= batch_size
       THEN LET r == process_batch(Join(b2), content_matches, content_excluded) IN
              /\ tested' = Append(tested, Join(b2))
              /\ content_matches' = r.content_matches
              /\ content_excluded' = r.content_excluded
              /\ batch' = IF r.stop THEN b2 ELSE <<>>
              /\ pc' = IF r.stop THEN "tail" ELSE "read"
       ELSE /\ batch' = b2
            /\ pc' = "read"
            /\ UNCHANGED <<tested, content_matches, content_excluded>>
  /\ UNCHANGED <<cfg, fs, first, file_path_str, scanVars, pathVars, result, opens, raised>>

\* the iteration over f ends
ReadEOF ==
  /\ pc = "read"
  /\ nread = Len(file_of(file_path_str).lines)
  /\ ~Fails(io + 1)
  /\ io' = io + 1
  /\ pc' = "tail"
  /\ UNCHANGED <<cfg, fs, first, file_path_str, scanVars, pathVars, batch,
                 content_matches, content_excluded, nread, result, tested, opens, raised>>

\* open() or a read raises: the except branch returns
ReadError ==
  /\ pc \in {"open", "read"}
  /\ Fails(io + 1)
  /\ io' = io + 1
  /\ opens' = IF pc = "open" THEN Append(opens, file_path_str) ELSE opens
  /\ raised' = Append(raised, [path |-> file_path_str, op |-> io + 1,
                                content_matches |-> content_matches])
  /\ Return(except_result)
  /\ UNCHANGED <<cfg, fs, first, file_path_str, scanVars, pathVars, batch,
                 content_matches, content_excluded, nread, tested>>

\* the leftover batch after the loop
Flush ==
  /\ pc = "tail"
  /\ IF tail_pending(batch, content_matches, content_excluded)
     THEN LET r == process_batch(Join(batch), content_matches, content_excluded) IN
            /\ tested' = Append(tested, Join(batch))
            /\ content_matches' = r.content_matches
            /\ content_excluded' = r.content_excluded
     ELSE UNCHANGED <<tested, content_matches, content_excluded>>
  /\ pc' = "final"
  /\ UNCHANGED <<cfg, fs, first, file_path_str, scanVars, pathVars, batch, nread, io,
                 result, opens, raised>>

\* the returns after the try block (had_warning is still False there)
FinalCheck ==
  /\ pc = "final"
  /\ Return(final_check(content_matches, content_excluded, FALSE))
  /\ UNCHANGED <<cfg, fs, first, file_path_str, scanVars, pathVars, batch,
                 content_matches, content_excluded, nread, io, tested, opens, raised>>

----------------------------------------------------------------------------
(* SpecCheck: ContentMatcher.check called once on one file *)

InputDir == << <<"o", "u", "t">> >>
Outside == << <<"t", "m", "p">>, <<"o", ".", "t">> >>

CheckNames == { <<"a", ".", "t">>, <<"b", ".", "S", "o">> }
LineKinds == { <<"h", NL>>, <<"x", NL>>, <<"z", NL>> }
Contents == UNION { [1..n -> LineKinds] : n \in 0..MaxLines }
ContentIncludes == { NoneP, Some(<<>>), Some(<<"h">>), Some(<<"h", NL, "x">>) }
ContentExcludes == { NoneP, Some(<<"x">>), Some(<<".">>) }

IdleScan ==
  /\ stack = <<>>
  /\ pending = <<>>
  /\ listed = FALSE
  /\ scanned = 0
  /\ yielded = <<>>
  /\ matched = 0
  /\ filtered = <<>>
  /\ warnings = <<>>
  /\ log = <<>>

IdlePath == path_inc = FALSE /\ path_exc = FALSE

NoFirst == [done |-> FALSE, filtered |-> <<>>, scanned |-> 0, matched |-> 0]

IdleCheck ==
  /\ batch = <<>>
  /\ content_matches = FALSE
  /\ content_excluded = FALSE
  /\ nread = 0
  /\ io = 0
  /\ result = Res(FALSE, FALSE, FALSE)
  /\ tested = <<>>
  /\ opens = <<>>
  /\ raised = <<>>

InitCheck ==
  /\ \E name \in CheckNames, lines \in Contents :
       \E k \in 0..(Len(lines) + 2) :
         /\ fs = [dirs |-> (<<>> :> [dirnames |-> <<>>, filenames |-> <<name>>,
                                     readable |-> TRUE]),
                  files |-> (<<name>> :> [lines |-> lines, failAt |-> k])]
         /\ file_path_str = InputDir \o <<name>>
  /\ \E cp \in ContentIncludes, cx \in ContentExcludes,
        mm \in MatchModes, bs \in 0..MaxBatch :
       cfg = [input_dir |-> InputDir, output_file |-> Outside,
              no_body |-> FALSE, no_headers |-> FALSE,
              pattern |-> NoneP, exclude_pattern |-> NoneP, match_mode |-> mm,
              recursive |-> FALSE,
              content_pattern |-> cp, content_exclude_pattern |-> cx,
              batch_size |-> bs]
  /\ pc = "check"
  /\ IdleScan /\ IdlePath /\ IdleCheck
  /\ first = NoFirst

NextCheck ==
  \/ CheckEntry
  \/ OpenFile
  \/ ReadLine
  \/ ReadEOF
  \/ ReadError
  \/ Flush
  \/ FinalCheck

SpecCheck == InitCheck /\ [][NextCheck]_vars

----------------------------------------------------------------------------
(* scan.py: iter_files *)

prune_nothing(dirnames) == dirnames

\* dirnames[:] = [d for d in dirnames if d not in DEFAULT_EXCLUDED_DIR_NAMES]
prune(dirnames) == SelectSeq(dirnames, LAMBDA d : d \notin DEFAULT_EXCLUDED_DIR_NAMES)

\* recursive mode: os.walk hands out the next directory (top-down, an
\* unreadable directory is passed over silently as onerror is None), the
\* generator prunes dirnames in place and is about to yield the filenames
WalkDir ==
  /\ pc = "loop"
  /\ cfg.recursive
  /\ pending = <<>>
  /\ stack # <<>>
  /\ LET dirpath == Head(stack)
         entry == fs.dirs[dirpath]
         kept == prune(entry.dirnames)
     IN  IF entry.readable
         THEN /\ pending' = [i \in 1..Len(entry.filenames) |->
                               dirpath \o <<entry.filenames[i]>>]
              /\ stack' = [i \in 1..Len(kept) |-> dirpath \o <<kept[i]>>] \o Tail(stack)
         ELSE /\ pending' = <<>>
              /\ stack' = Tail(stack)
  /\ UNCHANGED <<cfg, fs, first, pc, file_path_str, listed, scanned, yielded, matched, filtered,
                 warnings, log, pathVars, chkVars>>

\* non-recursive mode: os.scandir(root); only entries that are files are
\* yielded; an unreadable root raises out of scan_files
ScanDir ==
  /\ pc = "loop"
  /\ ~cfg.recursive
  /\ ~listed
  /\ listed' = TRUE
  /\ IF fs.dirs[<<>>].readable
     THEN /\ pending' = [i \in 1..Len(fs.dirs[<<>>].filenames) |->
                           <<fs.dirs[<<>>].filenames[i]>>]
          /\ pc' = "loop"
     ELSE /\ pending' = <<>>
          /\ pc' = "raised"
  /\ UNCHANGED <<cfg, fs, first, file_path_str, stack, scanned, yielded, matched, filtered,
                 warnings, log, pathVars, chkVars>>

\* the generator yields the next path; the loop body starts: stats.scanned += 1
YieldFile ==
  /\ pc = "loop"
  /\ pending # <<>>
  /\ file_path_str' = cfg.input_dir \o Head(pending)
  /\ pending' = Tail(pending)
  /\ scanned' = scanned + 1
  /\ yielded' = Append(yielded, file_path_str')
  /\ log' = <<>>
  /\ pc' = "cand"
  /\ UNCHANGED <<cfg, fs, first, stack, listed, matched, filtered, warnings,
                 pathVars, chkVars>>

----------------------------------------------------------------------------
(* scan.py: scan_files *)

\* make_path_matchers and make_content_matcher, then iter_files(...) is called
Construct ==
  /\ pc = "start"
  /\ IF compile_fails
     THEN pc' = "raised" /\ stack' = stack
     ELSE pc' = "loop" /\ stack' = IF cfg.recursive THEN << <<>> >> ELSE <<>>
  /\ UNCHANGED <<cfg, fs, first, file_path_str, pending, listed, scanned, yielded, matched,
                 filtered, warnings, log, pathVars, chkVars>>

is_output_never(path) == FALSE

\* file_path_str == output_file_str
is_output(path) == path = cfg.output_file

SkipOutput ==
  /\ pc = "cand"
  /\ log' = Append(log, "output")
  /\ pc' = IF is_output(file_path_str) THEN "loop" ELSE "path_include"
  /\ UNCHANGED <<cfg, fs, first, file_path_str, stack, pending, listed, scanned, yielded, matched,
                 filtered, warnings, pathVars, chkVars>>

rel_path_str == relpath(file_path_str, cfg.input_dir)

passes_include_requires_pattern(rel_path, name) ==
  Truthy(cfg.pattern) /\ include(rel_path, name)

passes_include_rejecting_empty(rel_path, name) ==
  IF cfg.pattern.set /\ cfg.pattern.text = <<>> THEN FALSE
  ELSE ~(Truthy(cfg.pattern) /\ ~include(rel_path, name))

\* the candidate is kept by "if cfg.pattern and not include_path(...): continue"
passes_include(rel_path, name) == ~(Truthy(cfg.pattern) /\ ~include(rel_path, name))

hit_by_exclude_never(rel_path, name) == FALSE

\* the candidate is dropped by "if cfg.exclude_pattern and exclude_path(...): continue"
hit_by_exclude(rel_path, name) == Truthy(cfg.exclude_pattern) /\ exclude(rel_path, name)

PathInclude ==
  /\ pc = "path_include"
  /\ log' = Append(log, "include")
  /\ path_inc' = passes_include(rel_path_str, basename(file_path_str))
  /\ pc' = IF path_inc' THEN "path_exclude" ELSE "loop"
  /\ UNCHANGED <<cfg, fs, first, file_path_str, stack, pending, listed, scanned, yielded, matched,
                 filtered, warnings, path_exc, chkVars>>

PathExclude ==
  /\ pc = "path_exclude"
  /\ log' = Append(log, "exclude")
  /\ path_exc' = hit_by_exclude(rel_path_str, basename(file_path_str))
  /\ pc' = IF path_exc' THEN "loop" ELSE "check"
  /\ UNCHANGED <<cfg, fs, first, file_path_str, stack, pending, listed, scanned, yielded, matched,
                 filtered, warnings, path_inc, chkVars>>

AfterCheck_prepending ==
  /\ pc = "after_check"
  /\ warnings' = IF result.had_warning THEN Append(warnings, rel_path_str) ELSE warnings
  /\ filtered' = IF ~result.include_ok \/ result.excluded THEN filtered
                 ELSE <<(<<file_path_str, rel_path_str>>)>> \o filtered
  /\ pc' = "loop"
  /\ UNCHANGED <<cfg, fs, first, file_path_str, stack, pending, listed, scanned, yielded, matched,
                 log, pathVars, chkVars>>

\* after content_matcher.check returned: warning, reject or append
AfterCheck ==
  /\ pc = "after_check"
  /\ warnings' = IF result.had_warning THEN Append(warnings, rel_path_str) ELSE warnings
  /\ filtered' = IF ~result.include_ok \/ result.excluded THEN filtered
                 ELSE Append(filtered, <<file_path_str, rel_path_str>>)
  /\ pc' = "loop"
  /\ UNCHANGED <<cfg, fs, first, file_path_str, stack, pending, listed, scanned, yielded, matched,
                 log, pathVars, chkVars>>

\* the generator is exhausted: stats.matched = len(filtered), return
LoopEnd ==
  /\ pc = "loop"
  /\ pending = <<>>
  /\ IF cfg.recursive THEN stack = <<>> ELSE listed
  /\ matched' = Len(filtered)
  /\ pc' = "returned"
  /\ UNCHANGED <<cfg, fs, first, file_path_str, stack, pending, listed, scanned, yielded,
                 filtered, warnings, log, pathVars, chkVars>>

----------------------------------------------------------------------------
(* Spec: scan_files over a tree *)

fA == <<"a", ".", "t">>
fB == <<"b", ".", "S", "o">>
fC == <<"c", ".", "t">>
fD == <<"d", ".", "t">>
fO == <<"o", ".", "t">>
dS == <<"s">>
dOut == <<"o", "u", "t">>
dOUT == <<"O", "U", "T">>

lH == <<"h", NL>>
lX == <<"x", NL>>
lZ == <<"z", NL>>

Dir(dirnames, filenames) ==
  [dirnames |-> dirnames, filenames |-> filenames, readable |-> TRUE]
File(lines) == [lines |-> lines, failAt |-> 0]

\* the input directory is itself called "out"; a pruned directory at the top
\* and one inside s; the possible output file o.t at the top
Tree1 ==
  [dirs |-> (<<>> :> Dir(<<dOut, dS>>, <<fA, fB, fO>>))
         @@ (<<dOut>> :> Dir(<<>>, <<fD>>))
         @@ (<<dS>> :> Dir(<<dOut>>, <<fC>>))
         @@ (<<dS, dOut>> :> Dir(<<>>, <<fD>>)),
   files |-> (<<fA>> :> File(<<lH, lX>>))
          @@ (<<fB>> :> File(<<lH>>))
          @@ (<<fO>> :> File(<<lH>>))
          @@ (<<dOut, fD>> :> File(<<lH>>))
          @@ (<<dS, fC>> :> File(<<lZ, lH>>))
          @@ (<<dS, dOut, fD>> :> File(<<lH>>))]

\* a directory whose name differs from a pruned one only in case; the
\* possible output file s/o.t comes first in its directory
Tree2 ==
  [dirs |-> (<<>> :> Dir(<<dS, dOUT>>, <<fC, fA>>))
         @@ (<<dS>> :> Dir(<<>>, <<fO, fA, fC>>))
         @@ (<<dOUT>> :> Dir(<<>>, <<fD>>)),
   files |-> (<<fC>> :> File(<<lX, lH>>))
          @@ (<<fA>> :> File(<<lH>>))
          @@ (<<dS, fO>> :> File(<<lH, lH>>))
          @@ (<<dS, fA>> :> File(<<lZ>>))
          @@ (<<dS, fC>> :> File(<<lH>>))
          @@ (<<dOUT, fD>> :> File(<<lH, lZ, lX>>))]

Trees == {Tree1, Tree2}

\* the files of a tree on which a read may fail
Flaky == {<<fA>>, <<dS, fC>>, <<dS, fO>>}

WithFailure(tree, f, k) ==
  [tree EXCEPT !.files = [@ EXCEPT ![f] = [@ EXCEPT !.failAt = k]]]

PathIncludes ==
  { NoneP, Some(<<>>), Some(<<"c", ".", "t">>), Some(<<"s", "/", "c">>), Some(<<"*">>) }
PathExcludes == { NoneP, Some(<<"a", ".", "t">>), Some(<<"s", "/">>) }
ScanContentIncludes == { NoneP, Some(<<"h">>) }
ScanContentExcludes == { NoneP, Some(<<"x">>) }
ScanBatchSizes == {1, DEFAULT_BATCH_SIZE}
OutputFiles == { Outside, InputDir \o <<fO>>, InputDir \o <<dS, fO>> }

Configs(pats, xpats, cpats, cxpats, sizes, outs) ==
  [input_dir : {InputDir}, output_file : outs,
   no_body : {FALSE}, no_headers : {FALSE},
   pattern : pats, exclude_pattern : xpats, match_mode : MatchModes,
   recursive : BOOLEAN,
   content_pattern : cpats, content_exclude_pattern : cxpats,
   batch_size : sizes]

Init ==
  /\ \E tree \in Trees :
       \/ fs = tree
       \/ \E f \in Flaky \cap DOMAIN tree.files :
            \E k \in 1..(Len(tree.files[f].lines) + 2) :
              fs = WithFailure(tree, f, k)
  /\ cfg \in Configs(PathIncludes, PathExcludes, ScanContentIncludes,
                     ScanContentExcludes, ScanBatchSizes, OutputFiles)
  /\ pc = "start"
  /\ file_path_str = <<>>
  /\ IdleScan /\ IdlePath /\ IdleCheck
  /\ first = NoFirst

Next ==
  \/ Construct
  \/ WalkDir
  \/ ScanDir
  \/ YieldFile
  \/ SkipOutput
  \/ PathInclude
  \/ PathExclude
  \/ CheckEntry
  \/ OpenFile
  \/ ReadLine
  \/ ReadEOF
  \/ ReadError
  \/ Flush
  \/ FinalCheck
  \/ AfterCheck
  \/ LoopEnd

Spec == Init /\ [][Next]_vars

----------------------------------------------------------------------------
(* fileconcat.py: the scan phase of the monolithic script, as functions of
   cfg and fs *)

\* batch_size = max(1, args.batch_size)
mono_batch_size == IF cfg.batch_size > 1 THEN cfg.batch_size ELSE 1

\* dirnames[:] = [d for d in dirnames if d not in DEFAULT_EXCLUDED_DIR_NAMES]
mono_prune(dirnames) ==
  SelectSeq(dirnames, LAMBDA d : d \notin DEFAULT_EXCLUDED_DIR_NAMES)

\* os.walk from the directories still to visit: the relative paths yielded
RECURSIVE mono_walk(_)
mono_walk(todo) ==
  IF todo = <<>> THEN <<>>
  ELSE LET dirpath == Head(todo)
           entry == fs.dirs[dirpath]
           kept == mono_prune(entry.dirnames)
       IN  IF entry.readable
           THEN [i \in 1..Len(entry.filenames) |-> dirpath \o <<entry.filenames[i]>>]
                \o mono_walk([i \in 1..Len(kept) |-> dirpath \o <<kept[i]>>] \o Tail(todo))
           ELSE mono_walk(Tail(todo))

\* os.scandir(root) raises
mono_iter_raises == ~cfg.recursive /\ ~fs.dirs[<<>>].readable

\* iter_files(input_dir_str, recursive): the paths in the order yielded
mono_iter_files ==
  LET rels == IF cfg.recursive THEN mono_walk(<< <<>> >>)
              ELSE IF fs.dirs[<<>>].readable
                THEN [i \in 1..Len(fs.dirs[<<>>].filenames) |-> <<fs.dirs[<<>>].filenames[i]>>]
              ELSE <<>>
  IN  [i \in 1..Len(rels) |-> cfg.input_dir \o rels[i]]

\* one of the four re.compile calls raises
mono_compile_fails ==
  /\ cfg.match_mode = "regex"
  /\ \/ (Truthy(cfg.pattern) /\ ~RegexValid(cfg.pattern.text))
     \/ (Truthy(cfg.exclude_pattern) /\ ~RegexValid(cfg.exclude_pattern.text))
     \/ (Truthy(cfg.content_pattern) /\ ~RegexValid(cfg.content_pattern.text))
     \/ (Truthy(cfg.content_exclude_pattern) /\ ~RegexValid(cfg.content_exclude_pattern.text))

\* "Path include filter": the candidate is not dropped
mono_path_included(rel, name) ==
  IF ~Truthy(cfg.pattern) THEN TRUE
  ELSE IF cfg.match_mode = "regex" THEN search(cfg.pattern.text, rel)
  ELSE IF cfg.match_mode = "substring"
    THEN ~(~Contains(cfg.pattern.text, rel) /\ ~Contains(cfg.pattern.text, name))
  ELSE ~(rel # cfg.pattern.text /\ name # cfg.pattern.text)

\* "Path exclude filter": the candidate is dropped
mono_path_excluded(rel, name) ==
  IF ~Truthy(cfg.exclude_pattern) THEN FALSE
  ELSE IF cfg.match_mode = "regex" THEN search(cfg.exclude_pattern.text, rel)
  ELSE IF cfg.match_mode = "substring"
    THEN Contains(cfg.exclude_pattern.text, rel) \/ Contains(cfg.exclude_pattern.text, name)
  ELSE rel = cfg.exclude_pattern.text \/ name = cfg.exclude_pattern.text

\* the test of one content pattern on a batch text
mono_hit(p, batch_text) ==
  IF cfg.match_mode = "regex" THEN search(p.text, batch_text)
  ELSE Contains(p.text, batch_text)

\* the condition of the early stop, also used for the remaining batch
mono_stop(cm, ce) ==
  ce \/ (Truthy(cfg.content_pattern) /\ cm /\ ~Truthy(cfg.content_exclude_pattern))

\* the nested process_batch: the nonlocal flags after it and its result
mono_process_batch(batch_text, cm, ce) ==
  IF batch_text = <<>> THEN [cm |-> cm, ce |-> ce, stop |-> FALSE]
  ELSE LET cm2 == IF Truthy(cfg.content_pattern) /\ ~cm
                  THEN mono_hit(cfg.content_pattern, batch_text) ELSE cm
           ce2 == IF Truthy(cfg.content_exclude_pattern) /\ ~ce
                  THEN mono_hit(cfg.content_exclude_pattern, batch_text) ELSE ce
       IN  [cm |-> cm2, ce |-> ce2, stop |-> mono_stop(cm2, ce2)]

\* "process the remaining batch"
mono_remaining(b, cm, ce) ==
  IF b # <<>> /\ ~mono_stop(cm, ce)
  THEN LET r == mono_process_batch(Join(b), cm, ce)
       IN  [raised |-> FALSE, cm |-> r.cm, ce |-> r.ce]
  ELSE [raised |-> FALSE, cm |-> cm, ce |-> ce]

\* "for line in f" from line i on, with the batch and the flags so far; the
\* read of line i is I/O operation i + 1 of the file, the read that meets the
\* end of the file is operation Len(lines) + 2
RECURSIVE mono_read(_, _, _, _, _)
mono_read(f, i, b, cm, ce) ==
  IF f.failAt = i + 1 THEN [raised |-> TRUE, cm |-> cm, ce |-> ce]
  ELSE IF i > Len(f.lines) THEN mono_remaining(b, cm, ce)
  ELSE LET b2 == Append(b, f.lines[i]) IN
         IF Len(b2) >= mono_batch_size
         THEN LET r == mono_process_batch(Join(b2), cm, ce) IN
                IF r.stop THEN mono_remaining(b2, r.cm, r.ce)
                ELSE mono_read(f, i + 1, <<>>, r.cm, r.ce)
         ELSE mono_read(f, i + 1, b2, cm, ce)

mono_final_check_include_only(cm, ce) == ~(Truthy(cfg.content_pattern) /\ ~cm)

\* "final check after content matching": the candidate is kept
mono_final_check(cm, ce) ==
  /\ ~(Truthy(cfg.content_pattern) /\ ~cm)
  /\ ~(Truthy(cfg.content_exclude_pattern) /\ ce)

\* "Content-based filters": the candidate is kept
mono_content_kept(path, name) ==
  IF ~(Truthy(cfg.content_pattern) \/ Truthy(cfg.content_exclude_pattern)) THEN TRUE
  ELSE LET is_binary == lower(splitext(name)) \in DEFAULT_BINARY_EXTS
           f == fs.files[SubSeq(path, Len(cfg.input_dir) + 1, Len(path))]
       IN  IF Truthy(cfg.content_pattern) /\ is_binary THEN FALSE
           ELSE LET r == IF is_binary THEN [raised |-> FALSE, cm |-> FALSE, ce |-> FALSE]
                         ELSE IF f.failAt = 1 THEN [raised |-> TRUE, cm |-> FALSE, ce |-> FALSE]
                         ELSE mono_read(f, 1, <<>>, FALSE, FALSE)
                IN  IF r.raised THEN FALSE ELSE mono_final_check(r.cm, r.ce)

\* the body of the scan loop reaches filtered.append for this path
mono_kept(path) ==
  LET rel == relpath(path, cfg.input_dir)
      name == basename(path)
  IN  /\ path # cfg.output_file
      /\ mono_path_included(rel, name)
      /\ ~mono_path_excluded(rel, name)
      /\ mono_content_kept(path, name)

\* filtered after the loop
mono_filtered ==
  LET kept == SelectSeq(mono_iter_files, mono_kept)
  IN  [i \in 1..Len(kept) |-> <<kept[i], relpath(kept[i], cfg.input_dir)>>]

\* scanned after the loop
mono_scanned == Len(mono_iter_files)

----------------------------------------------------------------------------
(* SpecTwice: scan_files called a second time, same cfg, same tree *)

\* the caller keeps what the first call returned and calls scan_files(cfg)
\* again: new matchers, stats = ScanStats(), filtered = []
Rerun ==
  /\ pc = "returned"
  /\ ~first.done
  /\ first' = [done |-> TRUE, filtered |-> filtered, scanned |-> scanned,
               matched |-> matched]
  /\ pc' = "start"
  /\ file_path_str' = <<>>
  /\ stack' = <<>>
  /\ pending' = <<>>
  /\ listed' = FALSE
  /\ scanned' = 0
  /\ yielded' = <<>>
  /\ matched' = 0
  /\ filtered' = <<>>
  /\ warnings' = <<>>
  /\ log' = <<>>
  /\ opens' = <<>>
  /\ raised' = <<>>
  /\ UNCHANGED <<cfg, fs, pathVars, batch, content_matches, content_excluded,
                 nread, io, result, tested>>

NextTwice ==
  \/ Construct
  \/ WalkDir
  \/ ScanDir
  \/ YieldFile
  \/ SkipOutput
  \/ PathInclude
  \/ PathExclude
  \/ CheckEntry
  \/ OpenFile
  \/ ReadLine
  \/ ReadEOF
  \/ ReadError
  \/ Flush
  \/ FinalCheck
  \/ AfterCheck
  \/ LoopEnd
  \/ Rerun

\* a content pattern that the first file of Tree1 lacks and a later one has
TwiceContentIncludes == ScanContentIncludes \cup { Some(<<"z">>) }

TwicePathIncludes == { NoneP, Some(<<"c", ".", "t">>) }

InitTwice ==
  /\ \E tree \in Trees :
       \/ fs = tree
       \/ \E f \in Flaky \cap DOMAIN tree.files :
            \E k \in 1..(Len(tree.files[f].lines) + 2) :
              fs = WithFailure(tree, f, k)
  /\ cfg \in Configs(TwicePathIncludes, PathExcludes, TwiceContentIncludes,
                     ScanContentExcludes, ScanBatchSizes, OutputFiles)
  /\ pc = "start"
  /\ file_path_str = <<>>
  /\ IdleScan /\ IdlePath /\ IdleCheck
  /\ first = NoFirst

SpecTwice == InitTwice /\ [][NextTwice]_vars

----------------------------------------------------------------------------
(* SpecWalk: scan_files over a tree with a directory that cannot be listed *)

\* os.scandir(d) raises PermissionError for this directory
WithUnreadable(tree, d) ==
  [tree EXCEPT !.dirs = [@ EXCEPT ![d] = [@ EXCEPT !.readable = FALSE]]]

\* the root, a plain subdirectory, and the subdirectory OUT of Tree2
UnreadableDirs == { <<>>, <<dS>>, <<dOUT>> }

\* each tree as it is and with a failing open of a.t
WalkBases == Trees \cup { WithFailure(tree, <<fA>>, 1) : tree \in Trees }

InitWalk ==
  /\ \E tree \in WalkBases :
       \E d \in UnreadableDirs \cap DOMAIN tree.dirs :
         fs = WithUnreadable(tree, d)
  /\ cfg \in Configs(PathIncludes, PathExcludes, ScanContentIncludes,
                     ScanContentExcludes, ScanBatchSizes, OutputFiles)
  /\ pc = "start"
  /\ file_path_str = <<>>
  /\ IdleScan /\ IdlePath /\ IdleCheck
  /\ first = NoFirst

SpecWalk == InitWalk /\ [][Next]_vars

----------------------------------------------------------------------------
(* SpecMain: __main__.main, from the parsed command line to write_output *)

\* Path.is_dir(): the directories that exist are the input directory "out"
\* and the directories of the tree below it
is_dir(path) == \E d \in DOMAIN fs.dirs : path = InputDir \o d

args_invalid_flags_unchecked == ~is_dir(cfg.input_dir)

\* parse_args raises ValueError
args_invalid ==
  \/ ~is_dir(cfg.input_dir)
  \/ (cfg.no_headers /\ cfg.no_body)

\* parse_args: cfg holds the argparse namespace before and the AppConfig after
ParseArgs ==
  /\ pc = "parse_args"
  /\ IF args_invalid
     THEN pc' = "raised" /\ cfg' = cfg
     ELSE /\ pc' = "start"
          /\ cfg' = [cfg EXCEPT !.batch_size = IF @ > 1 THEN @ ELSE 1]
  /\ UNCHANGED <<fs, first, file_path_str, scanVars, pathVars, chkVars>>

\* main after scan_files has returned: print_no_matches, or write_output
WriteOutput ==
  /\ pc = "returned"
  /\ pc' = IF filtered = <<>> THEN "no_matches" ELSE "written"
  /\ UNCHANGED <<cfg, fs, first, file_path_str, scanVars, pathVars, chkVars>>

\* a file of the tree and a path that does not exist, besides the directory
MainInputDirs == { InputDir, InputDir \o <<fA>>, << <<"n", "o">> >> }
MainPathIncludes == { NoneP, Some(<<"c", ".", "t">>), Some(<<"*">>) }
MainPathExcludes == { NoneP, Some(<<"a", ".", "t">>), Some(<<"*">>) }
MainContentIncludes == { NoneP, Some(<<"h">>), Some(<<"*">>) }
MainContentExcludes == { NoneP, Some(<<"x">>), Some(<<"*", "*">>) }
MainBatchSizes == {0, 2}
MainTrees == { Tree1, Tree2, WithFailure(Tree1, <<fA>>, 2) }

InitMain ==
  /\ fs \in MainTrees
  /\ cfg \in [input_dir : MainInputDirs, output_file : {Outside},
              no_body : BOOLEAN, no_headers : BOOLEAN,
              pattern : MainPathIncludes, exclude_pattern : MainPathExcludes,
              match_mode : MatchModes, recursive : BOOLEAN,
              content_pattern : MainContentIncludes,
              content_exclude_pattern : MainContentExcludes,
              batch_size : MainBatchSizes]
  /\ pc = "parse_args"
  /\ file_path_str = <<>>
  /\ IdleScan /\ IdlePath /\ IdleCheck
  /\ first = NoFirst

NextMain ==
  \/ ParseArgs
  \/ Construct
  \/ WalkDir
  \/ ScanDir
  \/ YieldFile
  \/ SkipOutput
  \/ PathInclude
  \/ PathExclude
  \/ CheckEntry
  \/ OpenFile
  \/ ReadLine
  \/ ReadEOF
  \/ ReadError
  \/ Flush
  \/ FinalCheck
  \/ AfterCheck
  \/ LoopEnd
  \/ WriteOutput

SpecMain == InitMain /\ [][NextMain]_vars

----------------------------------------------------------------------------
(* SpecPath: the two path matchers applied to one candidate *)

\* include_path(rel_path_str, name) and exclude_path(rel_path_str, name)
PathApply ==
  /\ pc = "path"
  /\ path_inc' = include(rel_path_str, basename(file_path_str))
  /\ path_exc' = exclude(rel_path_str, basename(file_path_str))
  /\ pc' = "path_done"
  /\ UNCHANGED <<cfg, fs, first, file_path_str, scanVars, chkVars>>

NameChars == {"a", "b"}
PatternChars == {"a", "b", "/"}
Names == UNION { [1..n -> NameChars] : n \in 1..MaxNameLen }
RelPaths == UNION { [1..d -> Names] : d \in 1..MaxDepth }
Patterns == {NoneP} \cup { Some(s) : s \in UNION { [1..n -> PatternChars] : n \in 0..MaxPatLen } }

NoTree == [dirs |-> (<<>> :> Dir(<<>>, <<>>)), files |-> <<>>]

InitPath ==
  /\ \E p \in Patterns, which \in {"pattern", "exclude_pattern"}, mm \in MatchModes :
       cfg = [input_dir |-> InputDir, output_file |-> Outside,
              no_body |-> FALSE, no_headers |-> FALSE,
              pattern |-> IF which = "pattern" THEN p ELSE NoneP,
              exclude_pattern |-> IF which = "exclude_pattern" THEN p ELSE NoneP,
              match_mode |-> mm, recursive |-> TRUE,
              content_pattern |-> NoneP, content_exclude_pattern |-> NoneP,
              batch_size |-> DEFAULT_BATCH_SIZE]
  /\ \E comps \in RelPaths : file_path_str = InputDir \o comps
  /\ fs = NoTree
  /\ pc = "path"
  /\ IdleScan /\ IdlePath /\ IdleCheck
  /\ first = NoFirst

NextPath == PathApply

SpecPath == InitPath /\ [][NextPath]_vars

----------------------------------------------------------------------------
(* The batches of a file, computed from its lines alone *)

TheFile == file_of(file_path_str)
TheName == basename(file_path_str)
IsBinary(name) == lower(splitext(name)) \in DEFAULT_BINARY_EXTS
IsBinaryName == IsBinary(TheName)
Readable == TheFile.failAt = 0
Returned == pc = "after_check"
Accepted == result.include_ok /\ ~result.excluded

BatchCount(lines) == (Len(lines) + batch_size - 1) \div batch_size
BatchTextOf(lines, k) ==
  LET last == IF k * batch_size < Len(lines) THEN k * batch_size ELSE Len(lines)
  IN  Join(SubSeq(lines, (k - 1) * batch_size + 1, last))
IncludeHitIn(lines, k) == content_hit(cfg.content_pattern, BatchTextOf(lines, k))
ExcludeHitIn(lines, k) == content_hit(cfg.content_exclude_pattern, BatchTextOf(lines, k))

NBatches == BatchCount(TheFile.lines)
FullBatches == Len(TheFile.lines) \div batch_size
BatchText(k) == BatchTextOf(TheFile.lines, k)
IncludeHit(k) == IncludeHitIn(TheFile.lines, k)
ExcludeHit(k) == ExcludeHitIn(TheFile.lines, k)

\* batch k settles the result: nothing read later can change it
Deciding(k) ==
  \/ Truthy(cfg.content_exclude_pattern) /\ \E i \in 1..k : ExcludeHit(i)
  \/ /\ Truthy(cfg.content_pattern)
     /\ ~Truthy(cfg.content_exclude_pattern)
     /\ \E i \in 1..k : IncludeHit(i)

\* what the content patterns say about a file all of whose reads succeed
ContentAccepts(path) ==
  IF ~(Truthy(cfg.content_pattern) \/ Truthy(cfg.content_exclude_pattern)) THEN TRUE
  ELSE IF IsBinary(basename(path)) THEN ~Truthy(cfg.content_pattern)
  ELSE LET lines == file_of(path).lines IN
         /\ Truthy(cfg.content_pattern) =>
              \E k \in 1..BatchCount(lines) : IncludeHitIn(lines, k)
         /\ Truthy(cfg.content_exclude_pattern) =>
              \A k \in 1..BatchCount(lines) : ~ExcludeHitIn(lines, k)

PathAccepts(path) ==
  LET rel == relpath(path, cfg.input_dir)
      name == basename(path)
  IN  /\ Truthy(cfg.pattern) => include(rel, name)
      /\ ~(Truthy(cfg.exclude_pattern) /\ exclude(rel, name))

Range(s) == { s[i] : i \in 1..Len(s) }
MatchedPaths == { filtered[i][1] : i \in 1..Len(filtered) }
RaisedPaths == { raised[i].path : i \in 1..Len(raised) }
AllPatternsEmpty ==
  /\ ~Truthy(cfg.pattern) /\ ~Truthy(cfg.exclude_pattern)
  /\ ~Truthy(cfg.content_pattern) /\ ~Truthy(cfg.content_exclude_pattern)

\* below the root, some ancestor directory of the path has a pruned name
HasPrunedAncestor(path) ==
  \E i \in (Len(cfg.input_dir) + 1)..(Len(path) - 1) :
     path[i] \in DEFAULT_EXCLUDED_DIR_NAMES

\* the files of the tree that lie below a pruned directory
PrunedFiles == { cfg.input_dir \o f : f \in DOMAIN fs.files } \cap
               { p \in { cfg.input_dir \o f : f \in DOMAIN fs.files } : HasPrunedAncestor(p) }

----
(* Claims about ContentMatcher.check (SpecCheck) *)

\* C1: with both content patterns configured, a readable non-binary file in
\* which the include pattern matches in an earlier batch and the exclude
\* pattern in a later batch is rejected.
C1_ExcludeAfterInclude ==
  ( /\ Returned /\ Readable /\ ~IsBinaryName
    /\ Truthy(cfg.content_pattern) /\ Truthy(cfg.content_exclude_pattern)
    /\ \E i, j \in 1..NBatches : i < j /\ IncludeHit(i) /\ ExcludeHit(j) )
  => ~Accepted

C1_Witness ==
  /\ Returned /\ Readable /\ ~IsBinaryName
  /\ Truthy(cfg.content_pattern) /\ Truthy(cfg.content_exclude_pattern)
  /\ \E i, j \in 1..NBatches :
       /\ i < j /\ IncludeHit(i) /\ ExcludeHit(j)
       /\ \A m \in 1..i : ~ExcludeHit(m)
  /\ result = Res(FALSE, TRUE, FALSE)
  /\ Len(tested) >= 2

\* C2: when the line count is not a multiple of batch_size and no full batch
\* settled the result, the leftover lines are tested as one more batch; a
\* file whose only include match is in that last batch is accepted.
C2_PartialBatchFlushed ==
  ( /\ Returned /\ Readable /\ ~IsBinaryName /\ enabled
    /\ Len(TheFile.lines) % batch_size # 0
    /\ ~Deciding(FullBatches) )
  => /\ Len(tested) = FullBatches + 1
     /\ tested[FullBatches + 1] =
          Join(SubSeq(TheFile.lines, FullBatches * batch_size + 1, Len(TheFile.lines)))
     /\ ( /\ Truthy(cfg.content_pattern)
          /\ IncludeHit(NBatches)
          /\ ~(Truthy(cfg.content_exclude_pattern) /\ ExcludeHit(NBatches)) )
        => Accepted

C2_Witness ==
  /\ Returned /\ Readable /\ ~IsBinaryName
  /\ batch_size = 2
  /\ Len(TheFile.lines) = 3
  /\ Truthy(cfg.content_pattern)
  /\ IncludeHit(2) /\ ~IncludeHit(1)
  /\ Len(tested) = 2
  /\ Accepted

\* C3: for a readable non-binary file the result is "accepted" exactly when
\* the include pattern (if configured) matches within some batch and the
\* exclude pattern (if configured) matches within no batch.
C3_FinalDecisionRule ==
  (Returned /\ Readable /\ ~IsBinaryName)
  => ( Accepted <=>
         /\ Truthy(cfg.content_pattern) => \E k \in 1..NBatches : IncludeHit(k)
         /\ Truthy(cfg.content_exclude_pattern) => \A k \in 1..NBatches : ~ExcludeHit(k) )

\* the loop stopped early, on an exclude match, with lines left unread
C3_Witness ==
  /\ Returned /\ Readable /\ ~IsBinaryName
  /\ Truthy(cfg.content_pattern) /\ Truthy(cfg.content_exclude_pattern)
  /\ \E k \in 1..NBatches : IncludeHit(k)
  /\ nread < Len(TheFile.lines)
  /\ ~Accepted

\* C9: with a content pattern configured, a file with a binary extension is
\* never opened; the result is (false, false, false) when a content-include
\* pattern is configured and (true, false, false) otherwise.
C9_BinaryShortCircuit ==
  (Returned /\ IsBinaryName /\ enabled)
  => /\ opens = <<>>
     /\ result = IF Truthy(cfg.content_pattern) THEN Res(FALSE, FALSE, FALSE)
                 ELSE Res(TRUE, FALSE, FALSE)

\* only the exclude pattern is configured and the unread file contains it
C9_Witness ==
  /\ Returned /\ IsBinaryName
  /\ ~Truthy(cfg.content_pattern) /\ Truthy(cfg.content_exclude_pattern)
  /\ \E k \in 1..NBatches : ExcludeHit(k)
  /\ opens = <<>>
  /\ result = Res(TRUE, FALSE, FALSE)

\* the first batch that settles the result, and the I/O operations up to it
FirstDeciding == CHOOSE k \in 1..NBatches : Deciding(k) /\ \A m \in 1..(k - 1) : ~Deciding(m)
OpsUntil(k) ==
  IF k * batch_size <= Len(TheFile.lines) THEN 1 + k * batch_size
  ELSE Len(TheFile.lines) + 2

\* C14: when some batch settles the result (exclude match, or include match
\* with no exclude pattern), check tests exactly the batches up to the first
\* such batch and reads no line after it, so a read that would fail later is
\* never made.
C14_EarlyTermination ==
  ( /\ Returned /\ ~IsBinaryName /\ enabled
    /\ \E k \in 1..NBatches : Deciding(k)
    /\ TheFile.failAt = 0 \/ TheFile.failAt > OpsUntil(FirstDeciding) )
  => /\ ~result.had_warning
     /\ Len(tested) = FirstDeciding
     /\ \A k \in 1..Len(tested) : tested[k] = BatchText(k)
     /\ nread = (IF FirstDeciding * batch_size <= Len(TheFile.lines)
                 THEN FirstDeciding * batch_size ELSE Len(TheFile.lines))
     /\ io = OpsUntil(FirstDeciding)

\* the second batch of three settles it; the next read would have failed
C14_Witness ==
  /\ Returned /\ ~IsBinaryName /\ enabled
  /\ NBatches = 3
  /\ Deciding(2) /\ ~Deciding(1)
  /\ TheFile.failAt = OpsUntil(2) + 1
  /\ Len(tested) = 2
  /\ nread < Len(TheFile.lines)
  /\ ~result.had_warning

\* C15: the excluded component is true whenever the content-exclude pattern
\* is configured and matched a batch that was processed, whatever include_ok
\* and had_warning are.
C15_ExcludedReportedIndependently ==
  ( /\ Returned
    /\ Truthy(cfg.content_exclude_pattern)
    /\ \E k \in 1..Len(tested) : content_hit(cfg.content_exclude_pattern, tested[k]) )
  => result.excluded

----------------------------------------------------------------------------
(* Claims about the path matchers (SpecPath) *)

\* C4: in exact mode with a non-empty pattern, include(rel_path, name) is
\* true exactly when rel_path or name equals the pattern; containing the
\* pattern as a proper substring is not a match.
C4_ExactIsEquality ==
  (pc = "path_done" /\ cfg.match_mode = "exact" /\ Truthy(cfg.pattern))
  => ( path_inc <=> \/ rel_path_str = cfg.pattern.text
                    \/ TheName = cfg.pattern.text )

C4_Witness ==
  /\ pc = "path_done" /\ cfg.match_mode = "exact" /\ Truthy(cfg.pattern)
  /\ Contains(cfg.pattern.text, TheName)
  /\ Contains(cfg.pattern.text, rel_path_str)
  /\ TheName # cfg.pattern.text
  /\ rel_path_str # cfg.pattern.text
  /\ ~path_inc

----------------------------------------------------------------------------
(* Claims about scan_files (Spec) *)

\* C5: in recursive mode no file below a directory with a default-excluded
\* name (the root itself apart) is yielded, counted in stats.scanned or put
\* in the matched list.
C5_TraversalPruning ==
  cfg.recursive =>
    /\ \A i \in 1..Len(yielded) : ~HasPrunedAncestor(yielded[i])
    /\ scanned = Len(yielded)
    /\ \A p \in MatchedPaths : ~HasPrunedAncestor(p)

\* pruned files exist at two depths and would pass every filter
C5_Witness ==
  /\ pc = "returned" /\ cfg.recursive
  /\ Cardinality(PrunedFiles) = 2
  /\ AllPatternsEmpty
  /\ scanned = 4
  /\ Len(filtered) >= 3

\* C6: no entry of the matched-file list has the output file's path.
C6_OutputNeverMatched ==
  \A i \in 1..Len(filtered) : filtered[i][1] # cfg.output_file

\* the output file was a candidate that every filter lets through
C6_Witness ==
  /\ pc = "returned"
  /\ cfg.output_file \in Range(yielded)
  /\ PathAccepts(cfg.output_file) /\ ContentAccepts(cfg.output_file)
  /\ file_of(cfg.output_file).failAt = 0
  /\ Len(filtered) >= 1

\* C7: stats.scanned counts every candidate yielded; with all four patterns
\* empty the matched list is the yielded candidates without the output file,
\* and stats.matched = stats.scanned - (candidates equal to the output file).
C7_NoPatternMatchesAll ==
  /\ scanned = Len(yielded)
  /\ (pc = "returned" /\ AllPatternsEmpty) =>
       /\ [i \in 1..Len(filtered) |-> filtered[i][1]] =
            SelectSeq(yielded, LAMBDA p : p # cfg.output_file)
       /\ matched = scanned -
            Cardinality({i \in 1..Len(yielded) : yielded[i] = cfg.output_file})
       /\ Cardinality({i \in 1..Len(yielded) : yielded[i] = cfg.output_file}) \in {0, 1}

C7_Witness ==
  /\ pc = "returned" /\ AllPatternsEmpty
  /\ cfg.pattern = Some(<<>>)
  /\ cfg.output_file \in Range(yielded)
  /\ scanned >= 3
  /\ matched = scanned - 1

\* C8: an exception caught while check opens or reads a file makes check
\* return had_warning = true and include_ok = false; the file is left out of
\* the matched list, gets exactly one warning, the scan does not raise, and
\* every candidate that passes the filters and is read without a failure is
\* in the returned list.
C8_ReadErrorIsNotFatal ==
  /\ (pc = "after_check" /\ file_path_str \in RaisedPaths) =>
       (result.had_warning /\ ~result.include_ok)
  /\ MatchedPaths \cap RaisedPaths = {}
  /\ pc \notin {"after_check"} =>
       warnings = [i \in 1..Len(raised) |-> relpath(raised[i].path, cfg.input_dir)]
  /\ \A i, j \in 1..Len(raised) : raised[i].path = raised[j].path => i = j
  /\ pc = "raised" => (compile_fails \/ ~fs.dirs[<<>>].readable)
  /\ pc = "returned" =>
       \A p \in Range(yielded) :
         ( /\ p \notin RaisedPaths
           /\ p # cfg.output_file
           /\ PathAccepts(p) /\ ContentAccepts(p) )
         => p \in MatchedPaths

\* the read failed after the include pattern had matched, and a candidate
\* yielded after the failing one is in the returned list
C8_Witness ==
  /\ pc = "returned"
  /\ Len(raised) = 1 /\ Len(warnings) = 1
  /\ raised[1].content_matches
  /\ raised[1].op >= 3
  /\ \E i, j \in 1..Len(yielded) :
       /\ i < j
       /\ yielded[i] = raised[1].path
       /\ yielded[j] \in MatchedPaths

\* C10: while check runs on a candidate, and for every file ever opened, the
\* candidate is not the output file, passed the path include test and was not
\* hit by the path exclude test; the three tests ran in this order before.
C10_CheapFiltersFirst ==
  /\ pc \in {"check", "open", "read", "tail", "final", "after_check"} =>
       /\ log = <<"output", "include", "exclude">>
       /\ file_path_str # cfg.output_file
       /\ PathAccepts(file_path_str)
  /\ \A p \in Range(opens) : p # cfg.output_file /\ PathAccepts(p)
  /\ pc \in {"cand", "path_include", "path_exclude"} => file_path_str \notin Range(opens)

\* some candidates were dropped by each cheap test and one was opened
C10_Witness ==
  /\ pc = "returned"
  /\ Truthy(cfg.pattern) /\ Truthy(cfg.exclude_pattern)
  /\ opens # <<>>
  /\ \E p \in Range(yielded) :
       ~include(relpath(p, cfg.input_dir), basename(p)) /\ p \notin Range(opens)
  /\ \E p \in Range(yielded) :
       /\ include(relpath(p, cfg.input_dir), basename(p))
       /\ exclude(relpath(p, cfg.input_dir), basename(p))
       /\ p \notin Range(opens)

\* C11: the matched list is the yielded sequence restricted to the matched
\* paths, in the same order and without repetition; a step leaves the list
\* alone or appends the current candidate to it.
C11_OrderPreserved ==
  /\ [](/\ [i \in 1..Len(filtered) |-> filtered[i][1]] =
             SelectSeq(yielded, LAMBDA p : p \in MatchedPaths)
        /\ \A i, j \in 1..Len(filtered) : filtered[i][1] = filtered[j][1] => i = j
        /\ \A i \in 1..Len(filtered) :
             filtered[i][2] = relpath(filtered[i][1], cfg.input_dir))
  /\ [][\/ filtered' = filtered
        \/ filtered' = Append(filtered, <<file_path_str, rel_path_str>>)]_vars

\* three files matched, with a rejected candidate yielded between two of them
C11_Witness ==
  /\ pc = "returned"
  /\ Len(filtered) >= 3
  /\ \E i, j, k \in 1..Len(yielded) :
       /\ i < j /\ j < k
       /\ yielded[i] \in MatchedPaths
       /\ yielded[j] \notin MatchedPaths
       /\ yielded[k] \in MatchedPaths

\* C12: in substring mode with pattern = "" the path include test lets every
\* candidate through: no candidate leaves the loop body at that test.
C12_EmptySubstringPatternKeepsAll ==
  (cfg.match_mode = "substring" /\ cfg.pattern = Some(<<>>)) =>
    /\ ~(pc = "loop" /\ log = <<"output", "include">>)
    /\ Len(log) >= 2 => path_inc
    /\ pc = "returned" /\ ~Truthy(cfg.exclude_pattern) /\ ~enabled =>
         MatchedPaths = Range(yielded) \ {cfg.output_file}

C12_Witness ==
  /\ pc = "returned"
  /\ cfg.match_mode = "substring" /\ cfg.pattern = Some(<<>>)
  /\ ~Truthy(cfg.exclude_pattern) /\ ~enabled
  /\ scanned >= 4
  /\ Len(filtered) >= 3
  /\ path_inc

\* C13: a second call of scan_files with the same configuration on the same
\* tree returns the same matched list, in the same order, and the same
\* scanned and matched counts as the first call.
C13_Idempotent ==
  (pc = "returned" /\ first.done) =>
    /\ filtered = first.filtered
    /\ scanned = first.scanned
    /\ matched = first.matched

\* both calls read files, one read failed in each, and some file matched
C13_Witness ==
  /\ pc = "returned" /\ first.done
  /\ enabled
  /\ Len(raised) = 1
  /\ Len(first.filtered) >= 2
  /\ first.scanned >= 4
  /\ Len(first.filtered) < first.scanned - 1

\* the directories of the tree that cannot be listed
Unreadable == { d \in DOMAIN fs.dirs : ~fs.dirs[d].readable }

IsPrefix(d, p) == Len(d) < Len(p) /\ SubSeq(p, 1, Len(d)) = d

\* the traversal comes to list directory d: the root always, a directory
\* below it in recursive mode when neither it nor an ancestor is pruned and
\* every ancestor can be listed
Encountered(d) ==
  \/ d = <<>>
  \/ /\ cfg.recursive
     /\ \A i \in 1..Len(d) : d[i] \notin DEFAULT_EXCLUDED_DIR_NAMES
     /\ \A a \in Unreadable : ~IsPrefix(a, d)

\* the files the traversal owes: those whose directory it comes to list and
\* can list
OwedFiles ==
  { f \in DOMAIN fs.files :
      LET d == SubSeq(f, 1, Len(f) - 1)
      IN  Encountered(d) /\ d \notin Unreadable }

\* C16: a directory that cannot be listed is skipped with a warning and the
\* scan goes on: scan_files raises for nothing but an invalid regex, on
\* return a warning names every unreadable directory the traversal came to,
\* and every file in a directory it could list was yielded.
C16_TraversalErrorsNonFatal ==
  /\ pc = "raised" => compile_fails
  /\ pc = "returned" =>
       /\ \A d \in Unreadable :
            Encountered(d) =>
              \E i \in 1..Len(warnings) :
                warnings[i] \in { d, cfg.input_dir \o d }
       /\ \A f \in OwedFiles : (cfg.input_dir \o f) \in Range(yielded)

\* the three configuration errors, read off the configuration itself
NotADirectory == cfg.input_dir \notin { InputDir \o d : d \in DOMAIN fs.dirs }
BothSuppressed == cfg.no_headers /\ cfg.no_body
InvalidRegex ==
  /\ cfg.match_mode = "regex"
  /\ \/ (Truthy(cfg.pattern) /\ ~RegexValid(cfg.pattern.text))
     \/ (Truthy(cfg.exclude_pattern) /\ ~RegexValid(cfg.exclude_pattern.text))
     \/ (Truthy(cfg.content_pattern) /\ ~RegexValid(cfg.content_pattern.text))
     \/ (Truthy(cfg.content_exclude_pattern)
           /\ ~RegexValid(cfg.content_exclude_pattern.text))

\* C17: with an invalid regex in one of the four pattern fields (regex mode),
\* an input path that is not a directory, or no_headers together with
\* no_body, the run never gets past the point where the error is raised: no
\* directory is listed, no candidate is yielded or counted as scanned, no
\* file is opened and nothing is written; the first two checks are made by
\* parse_args, before scan_files is entered.
C17_ConfigErrorsPrecedeTraversal ==
  /\ (NotADirectory \/ BothSuppressed) => pc \in {"parse_args", "raised"}
  /\ (NotADirectory \/ BothSuppressed \/ InvalidRegex) =>
       /\ pc \in {"parse_args", "start", "raised"}
       /\ scanned = 0 /\ matched = 0
       /\ yielded = <<>> /\ opens = <<>> /\ filtered = <<>>
       /\ ~listed /\ stack = <<>> /\ pending = <<>>

\* the error has been raised for an invalid content exclude regex alone
C17_Witness ==
  /\ pc = "raised"
  /\ ~NotADirectory /\ ~BothSuppressed
  /\ cfg.match_mode = "regex"
  /\ Truthy(cfg.pattern) /\ RegexValid(cfg.pattern.text)
  /\ ~Truthy(cfg.exclude_pattern)
  /\ Truthy(cfg.content_pattern) /\ RegexValid(cfg.content_pattern.text)
  /\ Truthy(cfg.content_exclude_pattern)
  /\ ~RegexValid(cfg.content_exclude_pattern.text)
  /\ scanned = 0

\* C18: when scan_files returns, its matched list and its scanned count are
\* those the scan phase of the monolithic script computes for the same
\* configuration and tree, read failures included; it raises for an invalid
\* regex exactly when the script does.
C18_ModularEqualsMonolith ==
  /\ pc = "returned" =>
       /\ ~mono_compile_fails /\ ~mono_iter_raises
       /\ filtered = mono_filtered
       /\ scanned = mono_scanned
  /\ pc = "raised" => (mono_compile_fails \/ mono_iter_raises)

\* both content patterns are set, a read failed in one file, a file was
\* rejected for its content and at least two were matched
C18_Witness ==
  /\ pc = "returned"
  /\ Truthy(cfg.content_pattern) /\ Truthy(cfg.content_exclude_pattern)
  /\ cfg.recursive
  /\ Len(raised) = 1
  /\ Len(filtered) >= 2
  /\ \E p \in Range(opens) : p \notin MatchedPaths /\ p \notin RaisedPaths
  /\ filtered = mono_filtered

====
